---------------------------- MODULE Spec2Model ----------------------------
(***************************************************************************)
(* The product catalogue of the e-commerce API (app/routers/products.py)   *)
(* with the access-control core it depends on: the token service, the      *)
(* identity resolver (get_current_user) and the owner-or-admin gate.       *)
(*                                                                         *)
(* Python's None / SQL NULL is the empty tuple and a present value v is    *)
(* the one-element tuple <<v>>, so that every nullable attribute has one   *)
(* comparable shape.  Time is counted in whole minutes.  Prices are        *)
(* integers.                                                               *)
(***************************************************************************)
EXTENDS Integers, Sequences, FiniteSets, TLC

VARIABLES
    products,   \* the products table: row i is the product with id i
    now,        \* the wall clock, in minutes
    last,       \* the last request served together with its response
    token,      \* the token under observation and the minute of its issue
    verdict     \* how verify classified that token last, and when

vars == <<products, now, last, token, verdict>>

----------------------------------------------------------------------------
(* Bounds of the model *)

MaxProducts == 2        \* rows the products table may hold
MaxIssue == 2           \* latest minute at which the observed token is issued
MaxOver == 2            \* minutes the clock runs on past the latest expiry

----------------------------------------------------------------------------
(* Values *)

NULL == <<>>
Some(v) == <<v>>

ACCESS_TOKEN_EXPIRE_MINUTES == 30

\* The users table.  Rows are written by the registration endpoint; the
\* catalogue only reads them.
Users ==
    1 :> [id |-> 1, email |-> "ann@x.com",  is_active |-> TRUE,  is_admin |-> FALSE] @@
    2 :> [id |-> 2, email |-> "bob@x.com",  is_active |-> TRUE,  is_admin |-> FALSE] @@
    3 :> [id |-> 3, email |-> "root@x.com", is_active |-> TRUE,  is_admin |-> TRUE ] @@
    4 :> [id |-> 4, email |-> "eve@x.com",  is_active |-> FALSE, is_admin |-> FALSE]

\* The identity of a request that did not authenticate.
NoUser == [id |-> 0, email |-> "", is_active |-> FALSE, is_admin |-> FALSE]

----------------------------------------------------------------------------
(* TokenService *)

\* issue(subject, now): the subject and the absolute expiry now + ttl, signed.
issue(subject, t) ==
    [wellformed |-> TRUE, signed |-> TRUE, sub |-> subject,
     exp |-> t + ACCESS_TOKEN_EXPIRE_MINUTES]

\* The same token with a bit of payload or signature flipped.
tamper(tok) == [tok EXCEPT !.signed = FALSE]

\* A string that is no token at all.
garbage == [wellformed |-> FALSE, signed |-> FALSE, sub |-> "", exp |-> 0]

\* verify(token, now) -> subject | Error
\* Faulty variant: a token is still accepted at the minute of its expiry.
verify_bad_boundary(tok, t) ==
    IF ~tok.wellformed THEN [ok |-> FALSE, error |-> "MalformedToken", sub |-> ""]
    ELSE IF ~tok.signed THEN [ok |-> FALSE, error |-> "TamperedToken", sub |-> ""]
    ELSE IF t > tok.exp THEN [ok |-> FALSE, error |-> "ExpiredToken", sub |-> ""]
    ELSE [ok |-> TRUE, error |-> "", sub |-> tok.sub]

verify(tok, t) ==
    IF ~tok.wellformed THEN [ok |-> FALSE, error |-> "MalformedToken", sub |-> ""]
    ELSE IF ~tok.signed THEN [ok |-> FALSE, error |-> "TamperedToken", sub |-> ""]
    ELSE IF t >= tok.exp THEN [ok |-> FALSE, error |-> "ExpiredToken", sub |-> ""]
    ELSE [ok |-> TRUE, error |-> "", sub |-> tok.sub]

----------------------------------------------------------------------------
(* IdentityResolver *)

NoHeader == [scheme |-> "", token |-> garbage]
Basic(tok) == [scheme |-> "Basic", token |-> tok]
Bearer(tok) == [scheme |-> "Bearer", token |-> tok]

find_account_by_email(email) ==
    IF \E i \in DOMAIN Users : Users[i].email = email
    THEN Users[CHOOSE i \in DOMAIN Users : Users[i].email = email]
    ELSE NoUser

\* The account a request authenticates as, or NoUser when any step fails.
get_current_user(hdr, t) ==
    IF hdr.scheme # "Bearer" THEN NoUser
    ELSE LET v == verify(hdr.token, t) IN
         IF ~v.ok THEN NoUser
         ELSE LET account == find_account_by_email(v.sub) IN
              IF account = NoUser \/ ~account.is_active THEN NoUser
              ELSE account


----------------------------------------------------------------------------
(* The products table *)

\* Attributes a PUT body can carry (ProductUpdate).
UpdateFields ==
    {"name", "description", "price", "category", "stock_quantity",
     "image_url", "is_active"}

\* Columns declared nullable=False besides the primary key.
NotNullColumns == {"name", "price", "owner_id"}

\* Product(**product_data.model_dump(), owner_id=...) once inserted and
\* refreshed: is_active takes its column default, created_at the server
\* default, updated_at stays NULL until the first UPDATE.
\* Faulty variant: the owner is not taken from the authenticated caller.
Product_wrong_owner(id, product_data, owner_id, t) ==
    [id |-> id,
     name |-> product_data.name,
     description |-> product_data.description,
     price |-> product_data.price,
     category |-> product_data.category,
     stock_quantity |-> product_data.stock_quantity,
     image_url |-> product_data.image_url,
     is_active |-> Some(TRUE),
     owner_id |-> Some(1),
     created_at |-> t,
     updated_at |-> NULL]

Product(id, product_data, owner_id, t) ==
    [id |-> id,
     name |-> product_data.name,
     description |-> product_data.description,
     price |-> product_data.price,
     category |-> product_data.category,
     stock_quantity |-> product_data.stock_quantity,
     image_url |-> product_data.image_url,
     is_active |-> Some(TRUE),
     owner_id |-> Some(owner_id),
     created_at |-> t,
     updated_at |-> NULL]

\* db.query(Product).filter(Product.id == product_id).first()
first(product_id) ==
    IF product_id \in DOMAIN products THEN Some(products[product_id]) ELSE NULL

\* for field, value in update_data.items(): setattr(product, field, value)
setattrs(product, update_data) ==
    [c \in DOMAIN product |->
        IF c \in DOMAIN update_data THEN update_data[c] ELSE product[c]]

\* The row an UPDATE of the dirty object writes: only attributes whose value
\* differs from the loaded one are sent, and when there is one, updated_at
\* takes its onupdate value.  An object with no net change sends nothing.
flush(loaded, dirty, t) ==
    IF dirty = loaded THEN loaded ELSE [dirty EXCEPT !.updated_at = Some(t)]

\* The UPDATE is rejected when it would store NULL in a NOT NULL column.
IntegrityError(row) == \E c \in NotNullColumns : row[c] = NULL

\* Serialising a row as ProductResponse fails when a required attribute
\* of the response model is None.
ResponseValidationError(row) ==
    \E c \in {"name", "price", "stock_quantity", "is_active"} : row[c] = NULL

\* product.is_active = False
\* Faulty variant: the deletion also clears the category.
soft_delete_and_clear_category(product) ==
    [product EXCEPT !.is_active = Some(FALSE), !.category = NULL]

soft_delete(product) == [product EXCEPT !.is_active = Some(FALSE)]

\* The ownership check of update_product and delete_product: the caller may
\* mutate the product when it owns it or is an admin.
\* Faulty variant: the admin override is missing.
can_mutate_owner_only(current_user, product) ==
    ~(product.owner_id # Some(current_user.id))

\* Faulty variant: the ownership check is missing.
can_mutate_anyone(current_user, product) == TRUE

can_mutate(current_user, product) ==
    ~(product.owner_id # Some(current_user.id) /\ ~current_user.is_admin)

\* The two checks both handlers make on the row they looked up, in order:
\* 404 when there is none, 403 when the caller may not mutate it, else 0.
\* Faulty variant: ownership is checked before existence.
precheck_ownership_first(current_user, found) ==
    IF found = NULL
    THEN (IF current_user.is_admin THEN 404 ELSE 403)
    ELSE IF ~can_mutate(current_user, found[1]) THEN 403
    ELSE 0

precheck(current_user, found) ==
    IF found = NULL THEN 404
    ELSE IF ~can_mutate(current_user, found[1]) THEN 403
    ELSE 0

----------------------------------------------------------------------------
(* Requests and responses *)

NoBody == [c \in {} |-> NULL]
NoQuery == [skip |-> 0, limit |-> 0, category |-> NULL,
            min_price |-> NULL, max_price |-> NULL]

Response(op, hdr, pid, body, query, status, result) ==
    [op |-> op, hdr |-> hdr, at |-> now, pid |-> pid, body |-> body,
     query |-> query, status |-> status, result |-> result]

Idle == [op |-> "none", hdr |-> NoHeader, at |-> 0, pid |-> 0, body |-> NoBody,
         query |-> NoQuery, status |-> 0, result |-> <<>>]

----------------------------------------------------------------------------
(* Handlers of the products router *)

\* POST /products/
create_product(hdr, product_data) ==
    LET current_user == get_current_user(hdr, now) IN
    IF current_user = NoUser
    THEN /\ last' = Response("create", hdr, 0, product_data, NoQuery, 401, <<>>)
         /\ UNCHANGED products
    ELSE /\ Len(products) < MaxProducts
         /\ LET new_product == Product(Len(products) + 1, product_data,
                                       current_user.id, now) IN
            /\ products' = Append(products, new_product)
            /\ last' = Response("create", hdr, new_product.id, product_data,
                                NoQuery, 201, <<>>)

\* PUT /products/{product_id}
update_product(hdr, product_id, product_data) ==
    LET current_user == get_current_user(hdr, now)
        found == first(product_id)
        respond(status) ==
            last' = Response("update", hdr, product_id, product_data, NoQuery,
                             status, <<>>)
    IN
    IF current_user = NoUser
    THEN respond(401) /\ UNCHANGED products
    ELSE IF precheck(current_user, found) # 0
    THEN respond(precheck(current_user, found)) /\ UNCHANGED products
    ELSE LET row == flush(found[1], setattrs(found[1], product_data), now) IN
         IF IntegrityError(row)
         THEN respond(500) /\ UNCHANGED products
         ELSE /\ products' = [products EXCEPT ![product_id] = row]
              /\ respond(IF ResponseValidationError(row) THEN 500 ELSE 200)

\* DELETE /products/{product_id}
\* Faulty variant: the handler does not depend on the identity resolver.
delete_product_anonymous(hdr, product_id) ==
    LET found == first(product_id)
        respond(status) ==
            last' = Response("delete", hdr, product_id, NoBody, NoQuery,
                             status, <<>>)
    IN
    IF found = NULL
    THEN respond(404) /\ UNCHANGED products
    ELSE /\ products' = [products EXCEPT
                            ![product_id] = flush(found[1], soft_delete(found[1]), now)]
         /\ respond(204)

\* Faulty variant: the row is written before the ownership check.
delete_product_write_first(hdr, product_id) ==
    LET current_user == get_current_user(hdr, now)
        found == first(product_id)
        respond(status) ==
            last' = Response("delete", hdr, product_id, NoBody, NoQuery,
                             status, <<>>)
    IN
    IF current_user = NoUser
    THEN respond(401) /\ UNCHANGED products
    ELSE IF found = NULL
    THEN respond(404) /\ UNCHANGED products
    ELSE /\ products' = [products EXCEPT
                            ![product_id] = flush(found[1], soft_delete(found[1]), now)]
         /\ respond(IF ~can_mutate(current_user, found[1]) THEN 403 ELSE 204)

delete_product(hdr, product_id) ==
    LET current_user == get_current_user(hdr, now)
        found == first(product_id)
        respond(status) ==
            last' = Response("delete", hdr, product_id, NoBody, NoQuery,
                             status, <<>>)
    IN
    IF current_user = NoUser
    THEN respond(401) /\ UNCHANGED products
    ELSE IF precheck(current_user, found) # 0
    THEN respond(precheck(current_user, found)) /\ UNCHANGED products
    ELSE LET row == flush(found[1], soft_delete(found[1]), now) IN
         /\ products' = [products EXCEPT ![product_id] = row]
         /\ respond(204)

\* `if category:` is true for a string that is not empty.
truthy(category) == category # NULL /\ category # Some("")

\* The WHERE clause get_products builds.
\* Faulty variant: the is_active filter is missing.
matches_any_status(product, q) ==
    /\ truthy(q.category) => product.category = q.category
    /\ q.min_price # NULL =>
          (product.price # NULL /\ product.price[1] >= q.min_price[1])
    /\ q.max_price # NULL =>
          (product.price # NULL /\ product.price[1] <= q.max_price[1])

matches(product, q) ==
    /\ product.is_active = Some(TRUE)
    /\ truthy(q.category) => product.category = q.category
    /\ q.min_price # NULL =>
          (product.price # NULL /\ product.price[1] >= q.min_price[1])
    /\ q.max_price # NULL =>
          (product.price # NULL /\ product.price[1] <= q.max_price[1])

Min(a, b) == IF a <= b THEN a ELSE b

\* query.offset(skip).limit(limit).all(), rows in primary-key order
page(rows, skip, limit) == SubSeq(rows, skip + 1, Min(Len(rows), skip + limit))

\* GET /products/
get_products(q) ==
    LET rows == page(SelectSeq(products, LAMBDA p : matches(p, q)),
                     q.skip, q.limit) IN
    /\ last' = IF \E i \in DOMAIN rows : ResponseValidationError(rows[i])
               THEN Response("list", NoHeader, 0, NoBody, q, 500, <<>>)
               ELSE Response("list", NoHeader, 0, NoBody, q, 200, rows)
    /\ UNCHANGED products

----------------------------------------------------------------------------
(* Inputs *)

ann == "ann@x.com"
bob == "bob@x.com"
root == "root@x.com"
eve == "eve@x.com"
ghost == "ghost@x.com"

pen == [name |-> Some("pen"), description |-> NULL, price |-> Some(1),
        category |-> Some("office"), stock_quantity |-> Some(0),
        image_url |-> NULL]

ink == [name |-> Some("ink"), description |-> Some("blue"), price |-> Some(2),
        category |-> Some(""), stock_quantity |-> Some(3),
        image_url |-> NULL]

\* A token the account with this email obtained by logging in this minute.
Fresh(email, t) == Bearer(issue(email, t))

\* The two ordinary accounts and the admin.
Callers(t) == {Fresh(e, t) : e \in {ann, bob, root}}

\* Every way a request can fail to authenticate, next to two that succeed.
Credentials(t) ==
    {Fresh(ann, t), Fresh(root, t),
     NoHeader,
     Basic(issue(ann, t)),
     Bearer(garbage),
     Bearer(tamper(issue(ann, t))),
     Bearer(issue(ann, t - ACCESS_TOKEN_EXPIRE_MINUTES)),
     Fresh(ghost, t),
     Fresh(eve, t)}

\* Ids of rows that exist or may come to exist, and one that never does.
ProductIds == 1 .. (MaxProducts + 1)

UpdateBodies ==
    {NoBody,
     [price |-> Some(2), category |-> NULL],
     [name |-> NULL],
     [is_active |-> Some(FALSE)]}

\* Every category filter with every page and no price bound, and with every
\* price bound on the first page.
Queries ==
    [skip : {0, 1}, limit : {1, 2},
     category : {NULL, Some(""), Some("office")},
     min_price : {NULL}, max_price : {NULL}]
    \cup
    [skip : {0}, limit : {2},
     category : {NULL, Some(""), Some("office")},
     min_price : {NULL, Some(2)}, max_price : {NULL, Some(1)}]

Unissued == [jwt |-> garbage, issued_at |-> 0, issued |-> FALSE]
Unverified == [class |-> "Unverified", at |-> 0]

Init ==
    /\ products = <<>>
    /\ now = 0
    /\ last = Idle
    /\ token = Unissued
    /\ verdict = Unverified

----------------------------------------------------------------------------
(* Spec: owners, other accounts and the admin mutate the catalogue *)

Create ==
    /\ \E hdr \in Callers(now) : create_product(hdr, pen)
    /\ UNCHANGED <<now, token, verdict>>

Update ==
    /\ \E hdr \in Callers(now), product_id \in ProductIds,
          product_data \in UpdateBodies :
          update_product(hdr, product_id, product_data)
    /\ UNCHANGED <<now, token, verdict>>

Delete ==
    /\ \E hdr \in Callers(now), product_id \in ProductIds :
          delete_product(hdr, product_id)
    /\ UNCHANGED <<now, token, verdict>>

Next == Create \/ Update \/ Delete

Spec == Init /\ [][Next]_vars

----------------------------------------------------------------------------
(* SpecAuth: the same handlers under every kind of credential *)

AuthCreate ==
    /\ \E hdr \in Credentials(now) : create_product(hdr, pen)
    /\ UNCHANGED <<now, token, verdict>>

AuthUpdate ==
    /\ \E hdr \in Credentials(now), product_id \in ProductIds :
          update_product(hdr, product_id, [is_active |-> Some(FALSE)])
    /\ UNCHANGED <<now, token, verdict>>

AuthDelete ==
    /\ \E hdr \in Credentials(now), product_id \in ProductIds :
          delete_product(hdr, product_id)
    /\ UNCHANGED <<now, token, verdict>>

NextAuth == AuthCreate \/ AuthUpdate \/ AuthDelete

SpecAuth == Init /\ [][NextAuth]_vars

----------------------------------------------------------------------------
(* SpecList: the public listing over a catalogue one account maintains *)

ListCreate ==
    /\ \E product_data \in {pen, ink} : create_product(Fresh(ann, now), product_data)
    /\ UNCHANGED <<now, token, verdict>>

\* Bodies that restore a product, and bodies that send an explicit null for
\* an attribute whose column is nullable.
ListBodies ==
    {[is_active |-> Some(TRUE)],
     [is_active |-> NULL],
     [stock_quantity |-> NULL]}

ListUpdate ==
    /\ \E product_id \in ProductIds, product_data \in ListBodies :
          update_product(Fresh(ann, now), product_id, product_data)
    /\ UNCHANGED <<now, token, verdict>>

ListDelete ==
    /\ \E product_id \in ProductIds : delete_product(Fresh(ann, now), product_id)
    /\ UNCHANGED <<now, token, verdict>>

List ==
    /\ \E q \in Queries : get_products(q)
    /\ UNCHANGED <<now, token, verdict>>

NextList == ListCreate \/ ListUpdate \/ ListDelete \/ List

SpecList == Init /\ [][NextList]_vars

----------------------------------------------------------------------------
(* SpecToken: one token, issued, presented and verified as time passes *)

classify(v) ==
    IF v.ok THEN "Valid"
    ELSE IF v.error = "ExpiredToken" THEN "Expired"
    ELSE "Invalid"

\* Login at minute now; the client keeps the token, or a damaged copy of it.
Issue ==
    /\ ~token.issued
    /\ now <= MaxIssue
    /\ \E e \in {ann, bob} :
          \E jwt \in {issue(e, now), tamper(issue(e, now)), garbage} :
             token' = [jwt |-> jwt, issued_at |-> now, issued |-> TRUE]
    /\ UNCHANGED <<products, now, last, verdict>>

Verify ==
    /\ token.issued
    /\ verdict' = [class |-> classify(verify(token.jwt, now)), at |-> now]
    /\ UNCHANGED <<products, now, last, token>>

Tick ==
    /\ now < MaxIssue + ACCESS_TOKEN_EXPIRE_MINUTES + MaxOver
    /\ now' = now + 1
    /\ UNCHANGED <<products, last, token, verdict>>

NextToken == Issue \/ Verify \/ Tick

SpecToken == Init /\ [][NextToken]_vars

----------------------------------------------------------------------------
(* Vocabulary of the properties *)

\* The account whose email the presented token names.
Caller(r) == find_account_by_email(r.hdr.token.sub)

\* The request carries an intact, unexpired bearer token of an active account.
Authentic(r) ==
    /\ r.hdr.scheme = "Bearer"
    /\ r.hdr.token.wellformed
    /\ r.hdr.token.signed
    /\ r.at < r.hdr.token.exp
    /\ \E i \in DOMAIN Users :
          Users[i].email = r.hdr.token.sub /\ Users[i].is_active

Mutation(r) == r.op \in {"update", "delete"}

\* The caller of r is an admin or owns the row r targets in table rows.
Privileged(r, rows) ==
    Caller(r).is_admin \/ rows[r.pid].owner_id = Some(Caller(r).id)

----------------------------------------------------------------------------
(* Properties of Spec *)

\* C1: for an authenticated caller and an existing product, update_product
\* and delete_product are answered with something other than 403 exactly
\* when the caller is an admin or the product's owner; every other caller
\* gets 403.
C1_OwnerOrAdmin ==
    (Mutation(last) /\ Authentic(last) /\ last.pid \in DOMAIN products) =>
        (last.status # 403 <=> Privileged(last, products))

\* The admin has deleted a product of another account.
C1_Witness ==
    /\ last.op = "delete" /\ last.status = 204
    /\ Caller(last).is_admin
    /\ products[last.pid].owner_id # Some(Caller(last).id)

\* C2: update_product or delete_product by any authenticated caller on an
\* id no product has ends in 404, never in 403.
C2_NotFoundFirst ==
    (Mutation(last) /\ Authentic(last) /\ last.pid \notin DOMAIN products) =>
        last.status = 404

\* An ordinary account asked to update an id that does not exist while
\* other products do.
C2_Witness ==
    /\ last.op = "update" /\ last.status = 404
    /\ ~Caller(last).is_admin
    /\ Len(products) >= 1

\* Two consecutive requests of the same kind by one ordinary account: the
\* first for an id no product has, the second for a product of another
\* account.
C3_Probe ==
    /\ Mutation(last) /\ Authentic(last) /\ ~Caller(last).is_admin
    /\ last.pid \notin DOMAIN products
    /\ last'.op = last.op /\ last'.hdr = last.hdr /\ Authentic(last')
    /\ last'.pid \in DOMAIN products
    /\ products[last'.pid].owner_id # Some(Caller(last').id)

\* C3 as stated: a caller that is neither owner nor admin gets the same
\* outcome for an id that does not exist as for a product another account
\* owns.
C3_Indistinguishable == [][C3_Probe => last'.status = last.status]_vars

\* C3 amended: that caller gets 404 for the id that does not exist and 403
\* for the product another account owns, so the two outcomes differ.
C3_Distinguishable ==
    [][C3_Probe => (last.status = 404 /\ last'.status = 403)]_vars

\* An ordinary account was refused the update of another account's product.
C3_Witness ==
    /\ last.op = "update" /\ last.status = 403
    /\ Caller(last) = Users[2]
    /\ products[last.pid].owner_id = Some(1)

\* C4: no step changes the owner_id of an existing product or removes the
\* product, and a product that appears was made by create_product with
\* owner_id the id of the authenticated creator.
C4_OwnerFixed ==
    [][/\ \A i \in DOMAIN products :
             /\ i \in DOMAIN products'
             /\ products'[i].owner_id = products[i].owner_id
       /\ \A i \in DOMAIN products' \ DOMAIN products :
             /\ last'.op = "create" /\ Authentic(last')
             /\ products'[i].owner_id = Some(Caller(last').id)]_vars

\* The admin has changed a product that an ordinary account created, and the
\* other product belongs to the admin.
C4_Witness ==
    /\ last.op = "update" /\ last.status = 200
    /\ Caller(last).is_admin
    /\ products[last.pid].owner_id = Some(2)
    /\ products[last.pid].updated_at # NULL
    /\ \E i \in DOMAIN products : products[i].owner_id = Some(3)

\* C7 as stated: a permitted delete_product sets is_active to False on the
\* targeted product and changes nothing else.
C7_OnlyIsActive ==
    [][(last'.op = "delete" /\ last'.status = 204) =>
          products' = [products EXCEPT ![last'.pid].is_active = Some(FALSE)]]_vars

\* C7 amended: a permitted delete_product answers 204; on an active product
\* it sets is_active to False and stamps updated_at with the time of the
\* request, on an already deleted product it changes nothing; no product is
\* removed and no other attribute and no other product changes.
C7_SoftDelete ==
    [][(last'.op = "delete" /\ Authentic(last') /\ last'.pid \in DOMAIN products
           /\ Privileged(last', products)) =>
          /\ last'.status = 204
          /\ products' =
               [products EXCEPT ![last'.pid] =
                   IF @.is_active = Some(FALSE) THEN @
                   ELSE [@ EXCEPT !.is_active = Some(FALSE),
                                  !.updated_at = Some(last'.at)]]]_vars

\* A product was soft-deleted while another one stayed active.
C7_Witness ==
    /\ last.op = "delete" /\ last.status = 204
    /\ products[last.pid].is_active = Some(FALSE)
    /\ products[last.pid].updated_at = Some(last.at)
    /\ \E i \in DOMAIN products : products[i].is_active = Some(TRUE)

\* C9: a permitted update_product sets every attribute present in the body
\* to the supplied value and leaves every attribute not present, the id,
\* the owner_id and every other product as they were.
C9_ExactlyTheFieldsSent ==
    [][(last'.op = "update" /\ Authentic(last') /\ last'.pid \in DOMAIN products
           /\ Privileged(last', products)) =>
          /\ DOMAIN products' = DOMAIN products
          /\ \A i \in DOMAIN products :
                \A c \in UpdateFields \cup {"id", "owner_id"} :
                   products'[i][c] =
                      IF i = last'.pid /\ c \in DOMAIN last'.body
                      THEN last'.body[c]
                      ELSE products[i][c]]_vars

\* C10: an update_product or delete_product that ends in 404 or 403 leaves
\* the products table as it was.
C10_RefusalChangesNothing ==
    [][(Mutation(last') /\ last'.status \in {403, 404}) =>
          products' = products]_vars

\* An ordinary account was refused the deletion of an active product.
C10_Witness ==
    /\ last.op = "delete" /\ last.status = 403
    /\ products[last.pid].is_active = Some(TRUE)

----------------------------------------------------------------------------
(* Properties of SpecAuth *)

\* C5: create_product, update_product and delete_product answer 401 and
\* leave the products table as it was whenever the request does not carry an
\* intact, unexpired bearer token of an active account, whether or not the
\* targeted product exists; with such a token they never answer 401.
C5_ResolverGuardsMutations ==
    [][(last'.op \in {"create", "update", "delete"}) =>
          IF Authentic(last')
          THEN last'.status # 401
          ELSE last'.status = 401 /\ products' = products]_vars

\* A deactivated account asked to delete an existing, active product.
C5_Witness ==
    /\ last.op = "delete" /\ last.status = 401
    /\ last.hdr = Fresh(eve, last.at)
    /\ last.pid \in DOMAIN products
    /\ products[last.pid].is_active = Some(TRUE)

----------------------------------------------------------------------------
(* Properties of SpecList *)

\* The filter C8 describes: active, and equal to the category whenever one
\* is supplied, and within the supplied price bounds.
C8_Selected(product, q) ==
    /\ product.is_active = Some(TRUE)
    /\ q.category # NULL => product.category = q.category
    /\ q.min_price # NULL => product.price[1] >= q.min_price[1]
    /\ q.max_price # NULL => product.price[1] <= q.max_price[1]

\* The same, with a supplied category of "" treated as not supplied.
C8_SelectedNonEmpty(product, q) ==
    /\ product.is_active = Some(TRUE)
    /\ q.category \notin {NULL, Some("")} => product.category = q.category
    /\ q.min_price # NULL => product.price[1] >= q.min_price[1]
    /\ q.max_price # NULL => product.price[1] <= q.max_price[1]

C8_Page(rows, q) ==
    [i \in 1 .. Min(q.limit, IF Len(rows) > q.skip THEN Len(rows) - q.skip ELSE 0) |->
        rows[q.skip + i]]

----------------------------------------------------------------------------
(* Properties of SpecToken *)

\* C6: a token issued at minute t is classified Valid at every check in
\* [t, t + ttl) and Expired at every check from t + ttl on, and the only
\* change of its classification is from Valid to Expired.
C6_TokenLifetime ==
    /\ []((verdict.class # "Unverified" /\ token.jwt.wellformed /\ token.jwt.signed) =>
            /\ verdict.at >= token.issued_at
            /\ verdict.at < token.issued_at + ACCESS_TOKEN_EXPIRE_MINUTES
                  => verdict.class = "Valid"
            /\ verdict.at >= token.issued_at + ACCESS_TOKEN_EXPIRE_MINUTES
                  => verdict.class = "Expired")
    /\ [][(verdict.class # "Unverified" /\ verdict'.class # verdict.class) =>
             (verdict.class = "Valid" /\ verdict'.class = "Expired")]_vars

\* The token was checked at the very minute of its expiry, and rejected.
C6_Witness ==
    /\ token.jwt.signed /\ token.issued_at > 0
    /\ verdict.class = "Expired"
    /\ verdict.at = token.issued_at + ACCESS_TOKEN_EXPIRE_MINUTES

=============================================================================
